---- MODULE Spec2Model ----
(***************************************************************************)
(* Model of src/main.py: the contribution-graph "text writer".             *)
(*                                                                         *)
(* Pure part: sunday_on_or_before, all_dates_for_year_grid,                *)
(* rasterize_text_to_53x7 and compute_commit_schedule, as operators over   *)
(* dates modelled the way Python's datetime module computes them           *)
(* (proleptic Gregorian ordinals, MINYEAR..MAXYEAR, OverflowError and      *)
(* ValueError at the edges).                                               *)
(*                                                                         *)
(* Effectful part: main(), as a sequential process with a program counter, *)
(* one step per external git command and one per loop iteration.           *)
(***************************************************************************)
EXTENDS Integers, Sequences, FiniteSets, TLC

(* ------------------------------------------------------------------ *)
(* Python datetime: constants and calendar arithmetic                  *)
(* ------------------------------------------------------------------ *)

MINYEAR == 1
MAXYEAR == 9999
MAXORDINAL == 3652059

DI400Y == 146097
DI100Y == 36524
DI4Y == 1461

DAYS_IN_MONTH == <<31, 28, 31, 30, 31, 30, 31, 31, 30, 31, 30, 31>>
DAYS_BEFORE_MONTH == <<0, 31, 59, 90, 120, 151, 181, 212, 243, 273, 304, 334>>

is_leap(year) == year % 4 = 0 /\ (year % 100 # 0 \/ year % 400 = 0)

days_before_year(year) ==
    LET y == year - 1
    IN  y * 365 + (y \div 4) - (y \div 100) + (y \div 400)

days_before_month(year, month) ==
    DAYS_BEFORE_MONTH[month] + (IF month > 2 /\ is_leap(year) THEN 1 ELSE 0)

days_in_month(year, month) ==
    IF month = 2 /\ is_leap(year) THEN 29 ELSE DAYS_IN_MONTH[month]

\* date.toordinal(): 0001-01-01 is day 1
toordinal(d) == days_before_year(d.year) + days_before_month(d.year, d.month) + d.day

\* date.fromordinal(n), for 1 <= n <= MAXORDINAL
fromordinal(ordinal) ==
    LET n0   == ordinal - 1
        n400 == n0 \div DI400Y
        r400 == n0 % DI400Y
        n100 == r400 \div DI100Y
        r100 == r400 % DI100Y
        n4   == r100 \div DI4Y
        r4   == r100 % DI4Y
        n1   == r4 \div 365
        n    == r4 % 365
        year == n400 * 400 + 1 + n100 * 100 + n4 * 4 + n1
    IN  IF n1 = 4 \/ n100 = 4
        THEN [year |-> year - 1, month |-> 12, day |-> 31]
        ELSE LET leapyear == n1 = 3 /\ (n4 # 24 \/ n100 = 3)
                 m0 == (n + 50) \div 32
                 p0 == DAYS_BEFORE_MONTH[m0] + (IF m0 > 2 /\ leapyear THEN 1 ELSE 0)
                 month == IF p0 > n THEN m0 - 1 ELSE m0
                 preceding ==
                     IF p0 > n
                     THEN p0 - (DAYS_IN_MONTH[month]
                                + (IF month = 2 /\ leapyear THEN 1 ELSE 0))
                     ELSE p0
             IN  [year |-> year, month |-> month, day |-> n - preceding + 1]

\* date.weekday(): Monday = 0 .. Sunday = 6
weekday(d) == (toordinal(d) + 6) % 7

\* Outcome of a call: a returned value, or a raised exception.
Ok(v) == [exc |-> "none", val |-> v]
Raise(e) == [exc |-> e, val |-> << >>]
Returned(r) == r.exc = "none"

\* date(year, month, day): ValueError outside MINYEAR..MAXYEAR
date(year, month, day) ==
    IF year < MINYEAR \/ year > MAXYEAR
    THEN Raise("ValueError")
    ELSE Ok([year |-> year, month |-> month, day |-> day])

\* d + timedelta(days): OverflowError when the ordinal leaves 1..MAXORDINAL
date_add(d, days) ==
    LET o == toordinal(d) + days
    IN  IF 0 < o /\ o <= MAXORDINAL THEN Ok(fromordinal(o)) ELSE Raise("OverflowError")

\* d - timedelta(days)
date_sub(d, days) == date_add(d, 0 - days)

\* datetime(year, month, day, hour, minute, second)
datetime(year, month, day, hour, minute, second) ==
    [year |-> year, month |-> month, day |-> day,
     hour |-> hour, minute |-> minute, second |-> second]

\* the tuple Python compares datetimes by
dt_key(t) == <<t.year, t.month, t.day, t.hour, t.minute, t.second>>

RECURSIVE lex_less(_, _, _)
lex_less(a, b, k) ==
    IF k > Len(a) THEN FALSE
    ELSE IF a[k] < b[k] THEN TRUE
    ELSE IF a[k] > b[k] THEN FALSE
    ELSE lex_less(a, b, k + 1)

\* datetime.__lt__
dt_lt(s, t) == lex_less(dt_key(s), dt_key(t), 1)

(* ------------------------------------------------------------------ *)
(* The grid                                                            *)
(* ------------------------------------------------------------------ *)

WEEKS == 53
DAYS == 7
Cols == 0 .. (WEEKS - 1)
Rows == 0 .. (DAYS - 1)

(* ------------------------------------------------------------------ *)
(* sunday_on_or_before, all_dates_for_year_grid                        *)
(* ------------------------------------------------------------------ *)

sunday_on_or_before_same_weekday(d) == date_sub(d, weekday(d) % 7)

sunday_on_or_before(d) == date_sub(d, (weekday(d) + 1) % 7)

cell_offset_transposed(x, y) == 7 * y + x

\* timedelta(weeks=...) in place of timedelta(days=...)
cell_offset_weeks(x, y) == 7 * (7 * x + y)

cell_offset(x, y) == 7 * x + y

all_dates_for_year_grid(year) ==
    LET jan1 == date(year, 1, 1)
    IN  IF ~Returned(jan1) THEN jan1
        ELSE LET start == sunday_on_or_before(jan1.val)
             IN  IF ~Returned(start) THEN start
                 ELSE LET cells == [x \in Cols |-> [y \in Rows |->
                                        date_add(start.val, cell_offset(x, y))]]
                      IN  IF \E x \in Cols, y \in Rows : ~Returned(cells[x][y])
                          THEN Raise("OverflowError")
                          ELSE Ok([x \in Cols |-> [y \in Rows |-> cells[x][y].val]])

(* ------------------------------------------------------------------ *)
(* rasterize_text_to_53x7                                              *)
(* ------------------------------------------------------------------ *)

\* A text is known to the program only through what Pillow renders for it:
\* whether the canvas has a bounding box at all (text.bbox), and the set of
\* cells of the downscaled 53x7 image with a non-zero value (text.small).
all_false == [y \in Rows |-> [x \in Cols |-> FALSE]]

rasterize_text_to_53x7(text) ==
    IF ~text.bbox
    THEN all_false
    ELSE [y \in Rows |-> [x \in Cols |-> <<x, y>> \in text.small]]

(* ------------------------------------------------------------------ *)
(* compute_commit_schedule                                             *)
(* ------------------------------------------------------------------ *)

\* list.sort(): stable ascending sort, by insertion from the right so that
\* equal keys keep their order
RECURSIVE insert_sorted(_, _, _)
insert_sorted(s, t, k) ==
    IF k = 0 \/ ~dt_lt(t, s[k])
    THEN SubSeq(s, 1, k) \o <<t>> \o SubSeq(s, k + 1, Len(s))
    ELSE insert_sorted(s, t, k - 1)

RECURSIVE sort_prefix(_, _)
sort_prefix(s, n) ==
    IF n = 0 THEN << >>
    ELSE LET acc == sort_prefix(s, n - 1)
         IN  insert_sorted(acc, s[n], Len(acc))

Reverse(s) == [k \in 1 .. Len(s) |-> s[Len(s) + 1 - k]]

sorted_descending(s) == Reverse(sort_prefix(s, Len(s)))

sorted(s) == sort_prefix(s, Len(s))

\* the filter of line 95 (a cell is kept when this holds)
in_year_or_adjacent(d, year) == d.year >= year - 1 /\ d.year <= year + 1

in_year(d, year) == d.year = year

\* the timestamp of line 98
midnight_utc(d) == datetime(d.year, d.month, d.day, 0, 0, 0)

noon_utc(d) == datetime(d.year, d.month, d.day, 12, 0, 0)

\* lines 92-99 for one cell: what the cell appends to selected
select_cell(pix, cal, year, x, y) ==
    LET d == cal[x][y]
    IN  IF ~pix[y][x] THEN << >>
        ELSE IF ~in_year(d, year) THEN << >>
        ELSE <<noon_utc(d)>>

\* the inner loop of line 91 for column x, from row y on
RECURSIVE select_rows(_, _, _, _, _)
select_rows(pix, cal, year, x, y) ==
    IF y >= DAYS THEN << >>
    ELSE select_cell(pix, cal, year, x, y) \o select_rows(pix, cal, year, x, y + 1)

\* the outer loop of line 90, from column x on
RECURSIVE select_from(_, _, _, _)
select_from(pix, cal, year, x) ==
    IF x >= WEEKS THEN << >>
    ELSE select_rows(pix, cal, year, x, 0) \o select_from(pix, cal, year, x + 1)

compute_commit_schedule(word, year) ==
    LET pix == rasterize_text_to_53x7(word)
        cal == all_dates_for_year_grid(year)
    IN  IF ~Returned(cal) THEN cal
        ELSE Ok(sorted(select_from(pix, cal.val, year, 0)))

(* ------------------------------------------------------------------ *)
(* Inputs                                                              *)
(* ------------------------------------------------------------------ *)

YearMargin == 1
YearLo == 2000
YearSpan == 28
MaxLit == 3
MaxMappings == 2

\* years at and around the limits of the date type
EdgeYears ==
    ((MINYEAR - YearMargin) .. (MINYEAR + YearMargin))
        \cup ((MAXYEAR - YearMargin) .. (MAXYEAR + YearMargin))

\* a window holding every weekday of January 1, with and without a leap day
WindowYears == YearLo .. (YearLo + YearSpan - 1)

\* every year the date type has, and YearMargin years beyond each end
AllYears == (MINYEAR - YearMargin) .. (MAXYEAR + YearMargin)

SchedYears == EdgeYears \cup WindowYears

\* every valid date of the first and last year of the date type and of the
\* first two years of the window
SundayYears == {MINYEAR, MAXYEAR, YearLo, YearLo + 1}
Dates ==
    UNION {UNION {{[year |-> yy, month |-> mm, day |-> dd] :
                      dd \in 1 .. days_in_month(yy, mm)} : mm \in 1 .. 12} :
           yy \in SundayYears}

\* cells at the edges and in the middle of the grid
CandidateCells ==
    {<<0, 0>>, <<0, 6>>, <<1, 0>>, <<26, 3>>, <<52, 0>>, <<52, 5>>, <<52, 6>>}

Blank == [bbox |-> FALSE, small |-> {}]
Inked(S) == [bbox |-> TRUE, small |-> S]

\* what Pillow can render: nothing at all; ink that the downscale loses or
\* keeps in a few cells; ink along the top row, the first or the last column
SparseWords == {Inked(S) : S \in {T \in SUBSET CandidateCells : Cardinality(T) <= MaxLit}}
Words == {Blank, Inked(Cols \X {0}), Inked({0} \X Rows), Inked({WEEKS - 1} \X Rows)} \cup SparseWords

MainWords ==
    {Blank, Inked({}), Inked({<<0, 0>>, <<26, 3>>, <<52, 6>>}),
     Inked({<<0, 0>>, <<1, 6>>, <<1, 0>>})}

MainYears == {MINYEAR, YearLo + 21}

NowYears == {YearLo + 25}

Pairs == [year : MainYears, word : MainWords]

\* --map YEAR:WORD, once or more
MapArgs == UNION {[1 .. n -> Pairs] : n \in 1 .. MaxMappings}

(* ------------------------------------------------------------------ *)
(* State                                                               *)
(* ------------------------------------------------------------------ *)

VARIABLES
    pc,        \* position of main()
    mappings,  \* the (year, word) pairs
    dry_run,   \* DRY_RUN is in the environment
    branch,    \* --branch was given
    i,         \* index of the pair the for loop of line 155 is at
    schedule,  \* schedule of the current pair
    schedules, \* history: the schedule computed for each pair so far
    idx,       \* position of the inner loop of line 163 in schedule
    total,
    git,       \* the git commands run so far, in order
    out,       \* the lines printed so far, in order
    exc,       \* the exception that ended main(), or "none"
    call       \* the last direct call of a pure function, with its result

vars == <<pc, mappings, dry_run, branch, i, schedule, schedules, idx, total, git, out, exc, call>>
main_vars == <<pc, mappings, dry_run, branch, i, schedule, schedules, idx, total, git, out, exc>>

NoCall ==
    [fn |-> "none", d |-> [year |-> 1, month |-> 1, day |-> 1], year |-> 0,
     word |-> Blank, ret |-> Ok(<< >>)]

(* ------------------------------------------------------------------ *)
(* main()                                                              *)
(* ------------------------------------------------------------------ *)

\* lines 116-119: the last three full years
default_map(now_year, w1, w2, w3) ==
    LET last_full == now_year - 1
    IN  <<[year |-> last_full - 2, word |-> w1],
          [year |-> last_full - 1, word |-> w2],
          [year |-> last_full, word |-> w3]>>

\* ts.strftime("%Y-%m-%d %H:%M:%S +0000"): the fields the string is made of
strftime(ts) == <<ts.year, ts.month, ts.day, ts.hour, ts.minute, ts.second, "+0000">>

commit_env_author_only(ts) ==
    [GIT_AUTHOR_DATE |-> strftime(ts), GIT_COMMITTER_DATE |-> strftime(midnight_utc(ts))]

\* lines 164-167
commit_env(ts) == [GIT_AUTHOR_DATE |-> strftime(ts), GIT_COMMITTER_DATE |-> strftime(ts)]

NoEnv == [GIT_AUTHOR_DATE |-> << >>, GIT_COMMITTER_DATE |-> << >>]

GitCmd(cmd, pair, env, rc) == [cmd |-> cmd, pair |-> pair, env |-> env, rc |-> rc]

Line(tag, year, n) == [tag |-> tag, year |-> year, n |-> n]

MainInit ==
    /\ pc = "rev_parse"
    /\ \/ mappings \in MapArgs
       \/ \E ny \in NowYears, w1, w2, w3 \in MainWords \ {Blank} :
              mappings = default_map(ny, w1, w2, w3)
    /\ dry_run \in BOOLEAN
    /\ branch \in BOOLEAN
    /\ i = 1
    /\ schedule = << >>
    /\ schedules = << >>
    /\ idx = 1
    /\ total = 0
    /\ git = << >>
    /\ out = << >>
    /\ exc = "none"

\* lines 142-146: outside a work tree main() says so and returns
RevParse ==
    /\ pc = "rev_parse"
    /\ \E rc \in {0, 1} :
        /\ git' = Append(git, GitCmd("rev-parse", 0, NoEnv, rc))
        /\ pc' = IF rc # 0 THEN "done" ELSE IF branch THEN "checkout" ELSE "loop"
    /\ UNCHANGED <<mappings, dry_run, branch, i, schedule, schedules, idx, total, out, exc, call>>

\* lines 149-150
Checkout ==
    /\ pc = "checkout"
    /\ \E rc \in {0, 1} :
        /\ git' = Append(git, GitCmd("checkout", 0, NoEnv, rc))
        /\ pc' = IF rc # 0 THEN "exit" ELSE "loop"
        /\ exc' = IF rc # 0 THEN "SystemExit" ELSE exc
    /\ UNCHANGED <<mappings, dry_run, branch, i, schedule, schedules, idx, total, out, call>>

dry_run_ignored(flag) == FALSE

\* line 158
is_dry_run(flag) == flag

\* the running total in place of the pair's own count
reported_running_total(sched, running_total) == running_total

\* lines 159 and 162: the count printed for a pair
reported_count(sched, running_total) == Len(sched)

\* lines 155-162: one iteration of the outer loop, up to the inner loop
LoopPair ==
    /\ pc = "loop"
    /\ i <= Len(mappings)
    /\ LET r == compute_commit_schedule(mappings[i].word, mappings[i].year)
       IN  IF ~Returned(r)
           THEN /\ pc' = "exit"
                /\ exc' = r.exc
                /\ UNCHANGED <<i, schedule, schedules, idx, total, out>>
           ELSE /\ schedule' = r.val
                /\ schedules' = Append(schedules, r.val)
                /\ total' = total + Len(r.val)
                /\ exc' = exc
                /\ IF is_dry_run(dry_run)
                   THEN /\ out' = Append(out, Line("dry-pair", mappings[i].year,
                                                 reported_count(r.val, total + Len(r.val))))
                        /\ i' = i + 1
                        /\ pc' = "loop"
                        /\ idx' = idx
                   ELSE /\ out' = Append(out, Line("pair", mappings[i].year,
                                                 reported_count(r.val, total + Len(r.val))))
                        /\ idx' = 1
                        /\ IF Len(r.val) = 0
                           THEN i' = i + 1 /\ pc' = "loop"
                           ELSE i' = i /\ pc' = "commit"
    /\ UNCHANGED <<mappings, dry_run, branch, git, call>>

\* lines 163-170: one iteration of the inner loop
Commit ==
    /\ pc = "commit"
    /\ \E rc \in {0, 1} :
        /\ git' = Append(git, GitCmd("commit", i, commit_env(schedule[idx]), rc))
        /\ IF rc # 0
           THEN pc' = "exit" /\ exc' = "SystemExit" /\ UNCHANGED <<i, idx>>
           ELSE /\ exc' = exc
                /\ IF idx < Len(schedule)
                   THEN idx' = idx + 1 /\ i' = i /\ pc' = "commit"
                   ELSE idx' = idx /\ i' = i + 1 /\ pc' = "loop"
    /\ UNCHANGED <<mappings, dry_run, branch, schedule, schedules, total, out, call>>

\* lines 172-178: after the outer loop
AfterLoop ==
    /\ pc = "loop"
    /\ i > Len(mappings)
    /\ IF is_dry_run(dry_run)
       THEN out' = Append(out, Line("dry-total", 0, total)) /\ pc' = "done"
       ELSE out' = Append(out, Line("pushing", 0, 0)) /\ pc' = "push"
    /\ UNCHANGED <<mappings, dry_run, branch, i, schedule, schedules, idx, total, git, exc, call>>

\* line 179
Push ==
    /\ pc = "push"
    /\ \E rc \in {0, 1} :
        /\ git' = Append(git, GitCmd("push", 0, NoEnv, rc))
        /\ pc' = IF rc # 0 THEN "exit" ELSE "done"
        /\ exc' = IF rc # 0 THEN "SystemExit" ELSE exc
    /\ UNCHANGED <<mappings, dry_run, branch, i, schedule, schedules, idx, total, out, call>>

Init == MainInit /\ call = NoCall

Next == RevParse \/ Checkout \/ LoopPair \/ Commit \/ AfterLoop \/ Push

Spec == Init /\ [][Next]_vars

(* ------------------------------------------------------------------ *)
(* The pure functions, called directly                                 *)
(* ------------------------------------------------------------------ *)

FnInit ==
    /\ call = NoCall
    /\ pc = "done"
    /\ mappings = << >>
    /\ dry_run = TRUE
    /\ branch = FALSE
    /\ i = 1
    /\ schedule = << >>
    /\ schedules = << >>
    /\ idx = 1
    /\ total = 0
    /\ git = << >>
    /\ out = << >>
    /\ exc = "none"

CallSunday ==
    /\ call.fn = "none"
    /\ \E d \in Dates :
        call' = [NoCall EXCEPT !.fn = "sunday_on_or_before", !.d = d,
                               !.ret = sunday_on_or_before(d)]
    /\ UNCHANGED main_vars

CallGrid ==
    /\ call.fn = "none"
    /\ \E year \in AllYears :
        call' = [NoCall EXCEPT !.fn = "all_dates_for_year_grid", !.year = year,
                               !.ret = all_dates_for_year_grid(year)]
    /\ UNCHANGED main_vars

CallSchedule ==
    /\ call.fn = "none"
    /\ \E year \in SchedYears, word \in Words :
        call' = [NoCall EXCEPT !.fn = "compute_commit_schedule", !.year = year,
                               !.word = word,
                               !.ret = compute_commit_schedule(word, year)]
    /\ UNCHANGED main_vars

FnNext == CallSunday \/ CallGrid \/ CallSchedule

FnSpec == FnInit /\ [][FnNext]_vars

(* ------------------------------------------------------------------ *)
(* Vocabulary of the properties                                        *)
(* ------------------------------------------------------------------ *)

\* the calendar's own successor: the day after d
NextDay(d) ==
    IF d.day < days_in_month(d.year, d.month) THEN [d EXCEPT !.day = d.day + 1]
    ELSE IF d.month < 12 THEN [year |-> d.year, month |-> d.month + 1, day |-> 1]
    ELSE [year |-> d.year + 1, month |-> 1, day |-> 1]

ValidDate(d) ==
    /\ d.year \in MINYEAR .. MAXYEAR
    /\ d.month \in 1 .. 12
    /\ d.day \in 1 .. days_in_month(d.year, d.month)

Ymd(yy, mm, dd) == [year |-> yy, month |-> mm, day |-> dd]

IsSunday(d) == toordinal(d) % 7 = 0

CellAt(g, k) == g[k \div DAYS][k % DAYS]

LastCell == WEEKS * DAYS - 1

GridCall == call.fn = "all_dates_for_year_grid" /\ Returned(call.ret)
SundayCall == call.fn = "sunday_on_or_before" /\ Returned(call.ret)
SchedCall == call.fn = "compute_commit_schedule" /\ Returned(call.ret)

Elems(s) == {s[k] : k \in 1 .. Len(s)}

\* the cells the raster of word lights
Lit(word) == {c \in Cols \X Rows : rasterize_text_to_53x7(word)[c[2]][c[1]]}

\* the date of cell c counted from the anchor of year
AnchorOf(year) == sunday_on_or_before(Ymd(year, 1, 1)).val
DateOfCell(year, c) == fromordinal(toordinal(AnchorOf(year)) + 7 * c[1] + c[2])
LitInYear(word, year) == {c \in Lit(word) : DateOfCell(year, c).year = year}

(* ------------------------------------------------------------------ *)
(* C1                                                                  *)
(* ------------------------------------------------------------------ *)

\* C1: whenever all_dates_for_year_grid(Y) returns a grid, cell [0][0] is
\* sunday_on_or_before(January 1 of Y) and cell [x][y] is cell [0][0] plus
\* 7*x + y days (each cell is the calendar day after the cell before it in
\* the order x, then y); for Y = 2021 cell [0][0] is 2020-12-27 and cell
\* [1][0] is 2021-01-03.
C1_GridIsAnchorPlusOffset ==
    GridCall =>
        LET g == call.ret.val
            a == sunday_on_or_before(Ymd(call.year, 1, 1))
        IN  /\ Returned(a)
            /\ g[0][0] = a.val
            /\ \A k \in 1 .. LastCell : CellAt(g, k) = NextDay(CellAt(g, k - 1))
            /\ \A x \in Cols, y \in Rows :
                   toordinal(g[x][y]) = toordinal(g[0][0]) + 7 * x + y
            /\ call.year = 2021 =>
                   /\ weekday(Ymd(2021, 1, 1)) = 4
                   /\ g[0][0] = Ymd(2020, 12, 27)
                   /\ g[1][0] = Ymd(2021, 1, 3)

C1_Witness == GridCall /\ call.year = 2021 /\ call.ret.val[1][0] = Ymd(2021, 1, 3)

(* ------------------------------------------------------------------ *)
(* C2                                                                  *)
(* ------------------------------------------------------------------ *)

\* C2: whenever sunday_on_or_before(d) returns, the result is a Sunday, is
\* not later than d and at most 6 days earlier, and is d itself when d is a
\* Sunday.
C2_SundayOnOrBefore ==
    SundayCall =>
        LET d == call.d
            r == call.ret.val
        IN  /\ IsSunday(r)
            /\ weekday(r) = 6
            /\ toordinal(r) <= toordinal(d)
            /\ toordinal(d) - toordinal(r) <= 6
            /\ IsSunday(d) => r = d

C2_Witness ==
    /\ SundayCall
    /\ ~IsSunday(call.d)
    /\ toordinal(call.d) - toordinal(call.ret.val) = 6

(* ------------------------------------------------------------------ *)
(* C3                                                                  *)
(* ------------------------------------------------------------------ *)

\* C3: every timestamp of compute_commit_schedule(W, Y) has calendar year Y.
C3_NoAdjacentYear ==
    SchedCall => \A k \in 1 .. Len(call.ret.val) : call.ret.val[k].year = call.year

\* a lit cell of the previous year and one of the next year are dropped, and
\* a lit cell of the year is kept
C3_Witness ==
    /\ SchedCall
    /\ \E c \in Lit(call.word) : DateOfCell(call.year, c).year = call.year - 1
    /\ \E c \in Lit(call.word) : DateOfCell(call.year, c).year = call.year + 1
    /\ Len(call.ret.val) > 0

(* ------------------------------------------------------------------ *)
(* C4                                                                  *)
(* ------------------------------------------------------------------ *)

\* C4: compute_commit_schedule(W, Y) is sorted non-decreasing by timestamp:
\* for positions i < j, entry i is not later than entry j.
C4_Sorted ==
    SchedCall =>
        \A k, l \in 1 .. Len(call.ret.val) :
            k < l => ~dt_lt(call.ret.val[l], call.ret.val[k])

C4_Witness == SchedCall /\ Len(call.ret.val) >= MaxLit

(* ------------------------------------------------------------------ *)
(* C5                                                                  *)
(* ------------------------------------------------------------------ *)

FullGridOfDates(g) ==
    /\ DOMAIN g = Cols
    /\ \A x \in Cols : DOMAIN g[x] = Rows /\ \A y \in Rows : ValidDate(g[x][y])

\* C5 as claimed: all_dates_for_year_grid(Y) and compute_commit_schedule(W, Y)
\* return (a full 53x7 grid of valid dates / a schedule) for any integer Y.
C5_TotalForAnyYear ==
    /\ call.fn = "all_dates_for_year_grid" =>
           Returned(call.ret) /\ FullGridOfDates(call.ret.val)
    /\ call.fn = "compute_commit_schedule" => Returned(call.ret)

\* C5, amended: all_dates_for_year_grid(Y) and compute_commit_schedule(W, Y)
\* return (a full 53x7 grid of valid dates / a schedule) for every year Y
\* strictly between the smallest and the largest year of the date type.
C5_TotalInsideDateRange ==
    (MINYEAR < call.year /\ call.year < MAXYEAR) =>
        /\ call.fn = "all_dates_for_year_grid" =>
               Returned(call.ret) /\ FullGridOfDates(call.ret.val)
        /\ call.fn = "compute_commit_schedule" => Returned(call.ret)

C5_Witness ==
    /\ GridCall
    /\ call.year = MAXYEAR - 1
    /\ FullGridOfDates(call.ret.val)
    /\ call.ret.val[WEEKS - 1][DAYS - 1].year = MAXYEAR

(* ------------------------------------------------------------------ *)
(* C9                                                                  *)
(* ------------------------------------------------------------------ *)

\* C9: compute_commit_schedule returns exactly one entry, at 12:00:00 on the
\* mapped date, for each lit cell whose date anchor + (7*x + y) days lies in
\* year Y, and no other entry: no timestamp occurs twice and the length is
\* the number of lit in-year cells. With only (0,0) and (52,6) lit and
\* Y = 2021, (0,0) (2020-12-27) is dropped and (52,6) is kept exactly when
\* anchor + 370 days lies in 2021.
C9_OneEntryPerLitInYearCell ==
    SchedCall =>
        LET s == call.ret.val
            kept == LitInYear(call.word, call.year)
            at_noon(c) ==
                LET d == DateOfCell(call.year, c)
                IN  [year |-> d.year, month |-> d.month, day |-> d.day,
                     hour |-> 12, minute |-> 0, second |-> 0]
        IN  /\ Elems(s) = {at_noon(c) : c \in kept}
            /\ Len(s) = Cardinality(kept)
            /\ \A k, l \in 1 .. Len(s) : k # l => s[k] # s[l]
            /\ (call.year = 2021 /\ Lit(call.word) = {<<0, 0>>, <<52, 6>>}) =>
                   /\ DateOfCell(2021, <<0, 0>>) = Ymd(2020, 12, 27)
                   /\ at_noon(<<0, 0>>) \notin Elems(s)
                   /\ at_noon(<<52, 6>>) \in Elems(s)
                          <=> DateOfCell(2021, <<52, 6>>).year = 2021

C9_Witness ==
    /\ SchedCall
    /\ call.year = 2021
    /\ Lit(call.word) = {<<0, 0>>, <<52, 6>>}

(* ------------------------------------------------------------------ *)
(* C10                                                                 *)
(* ------------------------------------------------------------------ *)

\* C10: the grid of all_dates_for_year_grid(Y) covers the whole of year Y:
\* every date from January 1 to December 31 of Y is in exactly one cell.
C10_GridCoversYear ==
    GridCall =>
        LET g == call.ret.val
            first == toordinal(Ymd(call.year, 1, 1))
            last == toordinal(Ymd(call.year, 12, 31))
        IN  \A o \in first .. last :
                Cardinality({c \in Cols \X Rows : g[c[1]][c[2]] = fromordinal(o)}) = 1

(* ------------------------------------------------------------------ *)
(* main(): vocabulary                                                  *)
(* ------------------------------------------------------------------ *)

PairIds == 1 .. Len(mappings)

\* the git commit commands issued for pair p, in order of issue
CommitsOf(p) == SelectSeq(git, LAMBDA c : c.cmd = "commit" /\ c.pair = p)

\* compute_commit_schedule has returned for pair p
Computed(p) == p <= Len(schedules)

RasterOf(p) == rasterize_text_to_53x7(mappings[p].word)

\* main() was ended by an exception of compute_commit_schedule at pair p
FailedAt(p) == pc = "exit" /\ exc \in {"ValueError", "OverflowError"} /\ i = p

\* the outer loop has finished pair p
Finished(p) == p < i

\* the six date and time fields of a formatted timestamp
IsoKey(iso) == SubSeq(iso, 1, 6)

RECURSIVE SumN(_, _)
SumN(lines, n) == IF n = 0 THEN 0 ELSE SumN(lines, n - 1) + lines[n].n

(* ------------------------------------------------------------------ *)
(* C6                                                                  *)
(* ------------------------------------------------------------------ *)

\* C6 as claimed: when the raster of a pair's word is the all-false grid,
\* compute_commit_schedule returns the empty sequence for every year and
\* raises no error, and main reports a count of 0 for the pair.
C6_BlankNeverFails ==
    \A p \in PairIds :
        RasterOf(p) = all_false =>
            /\ ~FailedAt(p)
            /\ Finished(p) => out[p].n = 0

\* C6, amended: when the raster of a pair's word is the all-false grid and
\* the pair's year lies strictly between the smallest and the largest year
\* of the date type, compute_commit_schedule returns the empty sequence and
\* raises no error, and main reports a count of 0 for the pair (and issues
\* no commit for it).
C6_BlankGivesZero ==
    \A p \in PairIds :
        (/\ RasterOf(p) = all_false
         /\ MINYEAR < mappings[p].year
         /\ mappings[p].year < MAXYEAR) =>
            /\ ~FailedAt(p)
            /\ ~(pc = "commit" /\ i = p)
            /\ Finished(p) <=> Computed(p)
            /\ Computed(p) =>
                   /\ schedules[p] = << >>
                   /\ out[p].n = 0
                   /\ out[p].year = mappings[p].year
            /\ CommitsOf(p) = << >>

\* a pair of a blank word and a pair whose ink the downscale lost, both
\* reported with count 0
C6_Witness ==
    /\ Len(mappings) = 2
    /\ mappings[1].word = Blank
    /\ mappings[2].word = Inked({})
    /\ MINYEAR < mappings[1].year /\ mappings[1].year < MAXYEAR
    /\ MINYEAR < mappings[2].year /\ mappings[2].year < MAXYEAR
    /\ Finished(2)
    /\ out[1].n = 0
    /\ out[2].n = 0

(* ------------------------------------------------------------------ *)
(* C7                                                                  *)
(* ------------------------------------------------------------------ *)

\* C7: in a non-dry run, the commits issued for a pair are, in order of
\* issue, the entries of the pair's schedule from the first one on, one
\* commit per entry, each with GIT_AUTHOR_DATE and GIT_COMMITTER_DATE equal
\* to the entry's timestamp; once the pair is finished there is exactly one
\* commit per entry; and a commit of a pair is never issued before a commit
\* of an earlier timestamp of the same pair.
C7_OneCommitPerEntryInOrder ==
    ~dry_run =>
        \A p \in PairIds :
            LET cs == CommitsOf(p)
            IN  /\ ~Computed(p) => cs = << >>
                /\ Computed(p) =>
                       /\ Len(cs) <= Len(schedules[p])
                       /\ \A k \in 1 .. Len(cs) :
                              /\ cs[k].env.GIT_AUTHOR_DATE = strftime(schedules[p][k])
                              /\ cs[k].env.GIT_COMMITTER_DATE = strftime(schedules[p][k])
                       /\ Finished(p) => Len(cs) = Len(schedules[p])
                       /\ (p = i /\ pc = "commit") => Len(cs) = idx - 1
                /\ \A k, l \in 1 .. Len(cs) :
                       k < l => ~lex_less(IsoKey(cs[l].env.GIT_AUTHOR_DATE),
                                          IsoKey(cs[k].env.GIT_AUTHOR_DATE), 1)

\* both pairs finished with two commits or more each
C7_Witness ==
    /\ ~dry_run
    /\ Len(mappings) = 2
    /\ Finished(2)
    /\ Len(CommitsOf(1)) >= 2
    /\ Len(CommitsOf(2)) >= 2
    /\ Len(git) >= 5

(* ------------------------------------------------------------------ *)
(* C8                                                                  *)
(* ------------------------------------------------------------------ *)

\* C8: when DRY_RUN is set no commit is created and no push is performed;
\* the line printed for each pair carries the number of entries of the
\* pair's schedule, and the grand total printed at the end is the sum of the
\* per-pair counts.
C8_DryRunOnlyReports ==
    dry_run =>
        /\ \A k \in 1 .. Len(git) : git[k].cmd \notin {"commit", "push"}
        /\ \A p \in PairIds :
               /\ Finished(p) <=> Computed(p)
               /\ Computed(p) =>
                      out[p] = Line("dry-pair", mappings[p].year, Len(schedules[p]))
        /\ \A k \in 1 .. Len(out) :
               /\ out[k].tag \in {"dry-pair", "dry-total"}
               /\ out[k].tag = "dry-total" =>
                      /\ k = Len(mappings) + 1
                      /\ k = Len(out)
                      /\ pc = "done"
                      /\ out[k].n = SumN(out, Len(mappings))
        /\ (pc = "done" /\ i > Len(mappings)) =>
               (Len(out) = Len(mappings) + 1 /\ out[Len(out)].tag = "dry-total")

\* a dry run over two pairs with different non-zero counts, total printed
C8_Witness ==
    /\ dry_run
    /\ pc = "done"
    /\ Len(mappings) = 2
    /\ Len(out) = 3
    /\ out[1].n > 0
    /\ out[2].n > out[1].n
    /\ out[3] = Line("dry-total", 0, out[1].n + out[2].n)

====
